---- MODULE Spec2Model ----
(***************************************************************************)
(* AI-Novelist: the launcher (launch_novelist.py), the idea generation     *)
(* stage (ai_novelist/generate_ideas.py), the experiment stage             *)
(* (ai_novelist/perform_experiments.py) and the writeup stage              *)
(* (ai_novelist/perform_writeup.py) as state machines.                     *)
(*                                                                         *)
(*   Spec             launcher -> do_idea -> perform_experiments ->        *)
(*                    run_experiment -> perform_writeup, one executor      *)
(*   SpecIdeas        generate_ideas and the launcher's rewrite of         *)
(*                    ideas.json, over repeated program runs               *)
(*   SpecRunExperiment  run_experiment alone, on long captured stderr      *)
(*   SpecParallel     the launcher with its worker processes, the device   *)
(*                    each is pinned to and the idea folders they write    *)
(*   SpecTerminates   Spec, with every step of the program taken in time   *)
(*   SpecWriteup      perform_writeup and generate_latex, call by call     *)
(***************************************************************************)
EXTENDS Integers, Sequences, FiniteSets, TLC

\* ------------------------------------------------------------------ constants
MAX_ITERS == 3
MAX_RUNS == 3
MAX_STDERR_OUTPUT == 1500

\* --------------------------------------------------------------------- bounds
\* ideas handed to the launcher's loop
MaxIdeas == 2
\* distinct results.json contents an experiment process can write
MaxDrafts == 1

VARIABLES
    \* launcher (__main__)
    novel_ideas,    \* the list the launcher iterates over
    parallel,       \* args.parallel
    l_pc,           \* position of the launcher
    idx,            \* 1-based position of the sequential loop in novel_ideas
    queue,          \* multiprocessing.Queue: ideas, then None sentinels
    w_pc,           \* position of the worker process
    called,         \* indexes of the ideas do_idea was invoked for, in order
    raised_for,     \* indexes of the ideas whose do_idea call raised
    \* do_idea
    di_pc,          \* position inside do_idea
    di_idea,        \* index of the idea do_idea works on (0: none)
    log_file,       \* do_idea's log_file argument
    di_ret,         \* what do_idea is about to return ("False", "None")
    di_exc,         \* the exception that left do_idea ("": none)
    pe_outcome,     \* what perform_experiments did for this idea
    writeup_called, \* perform_writeup was started for this idea
    writeup_done,   \* perform_writeup returned for this idea
    \* perform_experiments
    current_iter,
    run,
    next_prompt,
    results,
    last_attempt,   \* run number of the previous run_experiment call (0: none)
    n_success,      \* attempts of this call that exited with status zero
    fails_in_row,   \* failed attempts since the last successful one
    marker_seen,    \* the last coder.run reply held ALL_COMPLETED
    pe_exc,         \* the exception that left perform_experiments ("": none)
    run_dirs,       \* the run_<n> directories existing in the idea's folder
    coder_in,       \* the instruction text of the last coder.run call
    coder_calls,    \* coder.run calls of this perform_experiments call
    run_calls,      \* run_experiment calls of this perform_experiments call
    ok_results,     \* results.json as read by the last attempt that succeeded
    \* run_experiment called on its own
    proc,           \* what the launched process does
    re_pc,          \* position of the lone run_experiment call
    \* generate_ideas and its callers
    ideas_json,         \* content of <base_dir>/ideas.json
    gi_pc,              \* position of the program around generate_ideas
    caller,             \* "launcher" (launch_novelist.py) or "direct"
    skip_generation,
    max_num_generations,
    num_reflections,
    i,                  \* loop variable of the outer loop, line 148
    j,                  \* loop variable of the reflection loop, line 174
    msg_history,
    json_output,
    seed_ideas,         \* the JSON texts of seed_idea.json's ideas (lines 140-145)
    prev_idea,          \* the idea strings the next first-draft prompt embeds
    idea_str_archive,
    ideas,              \* the list generate_ideas returns
    llm_calls,          \* get_response_from_llm calls of this generate_ideas call
    cur,                \* what the replies for the idea in work were so far
    idea_log,           \* per idea attempted: the last parsed object, or Failed
    streak,             \* skip runs on a complete ideas.json in a row (capped)
    streak_file,        \* ideas.json as it was when that row of runs began
    \* the launcher with its worker processes, and the results directory
    available_gpus,     \* the list get_available_gpus returned
    processes,          \* number of worker processes started (len(processes))
    exec,               \* per process (0: the launcher itself): where it is
    clock,              \* the wall clock, in seconds
    folders,            \* the idea folders existing under results_dir
    writes,             \* <<folder, do_idea call>>: the call wrote into the folder
    do_idea_calls,      \* per idea of novel_ideas: do_idea calls made for it
    \* perform_writeup called on its own
    pw_pc,              \* position inside perform_writeup and generate_latex
    pw_built,           \* the prompts built so far
    pw_sent,            \* the prompts handed to coder.run so far, in order
    pw_latex,           \* how far generate_latex got ("none": not called)
    duplicates,         \* duplicates of generate_latex still to be reported
    gl_i                \* loop variable of the chktex loop, line 44

vars == <<novel_ideas, parallel, l_pc, idx, queue, w_pc, called, raised_for,
          di_pc, di_idea, log_file, di_ret, di_exc, pe_outcome, writeup_called,
          writeup_done,
          current_iter, run, next_prompt, results, last_attempt, n_success,
          fails_in_row, marker_seen, pe_exc, run_dirs, coder_in, coder_calls,
          run_calls, ok_results, proc, re_pc,
          ideas_json, gi_pc, caller, skip_generation, max_num_generations,
          num_reflections, i, j, msg_history, json_output, seed_ideas, prev_idea,
          idea_str_archive, ideas, llm_calls, cur, idea_log, streak, streak_file,
          available_gpus, processes, exec, clock, folders, writes, do_idea_calls,
          pw_pc, pw_built, pw_sent, pw_latex, duplicates, gl_i>>

launcher_vars == <<novel_ideas, parallel, l_pc, idx, queue, w_pc, called, raised_for>>
do_idea_vars == <<di_pc, di_idea, log_file, di_ret, di_exc, pe_outcome, writeup_called,
                  writeup_done>>
pe_vars == <<current_iter, run, next_prompt, results, last_attempt, n_success,
             fails_in_row, marker_seen, pe_exc, run_dirs, coder_in, coder_calls,
             run_calls, ok_results>>
re_vars == <<proc, re_pc>>
gi_vars == <<ideas_json, gi_pc, caller, skip_generation, max_num_generations,
             num_reflections, i, j, msg_history, json_output, seed_ideas, prev_idea,
             idea_str_archive, ideas, llm_calls, cur, idea_log, streak, streak_file>>
par_vars == <<available_gpus, processes, exec, clock, folders, writes, do_idea_calls>>
pw_vars == <<pw_pc, pw_built, pw_sent, pw_latex, duplicates, gl_i>>
\* what the launcher's loop, do_idea and perform_experiments never touch
other_vars == <<re_vars, gi_vars, par_vars, pw_vars>>

\* -------------------------------------------------------------------- strings
\* a str is a sequence of characters
Ellipsis == <<".", ".", ".">>

\* s[-n:] for n > 0
LastChars(s, n) == IF Len(s) <= n THEN s ELSE SubSeq(s, Len(s) - n + 1, Len(s))

\* ---------------------------------------------------------------------- ideas
Names == {"a"}
\* an idea object whose "Name" key is absent
Missing == "<missing>"
Idea == [Name : Names \cup {Missing}]

RECURSIVE SeqsUpTo(_, _)
SeqsUpTo(S, n) ==
    IF n = 0 THEN {<<>>}
    ELSE LET shorter == SeqsUpTo(S, n - 1)
         IN  shorter \cup {Append(s, x) : s \in {t \in shorter : Len(t) = n - 1}, x \in S}

\* ------------------------------------------------------------- run_experiment
\* dict values: a set of <<key, value>> pairs; `results` is a local that is
\* unbound until run_experiment's return value was assigned to it
EmptyDict == {}
Unbound == [bound |-> FALSE, val |-> EmptyDict]
Bound(d) == [bound |-> TRUE, val |-> d]
HasKey(d, k) == \E p \in d : p[1] = k

Drafts == 1..MaxDrafts
ResultsJson(r) == {<<"model_response", r>>}

\* what the launched `python experiment.py --out_dir=run_<n>` can do
ShortStderr == {<<>>, <<"a">>}
ProcOutcome(stderrs) ==
    [exit : {"nonzero"}, stderr : stderrs, made_dir : BOOLEAN, artifact : {"none"}, draft : {0}]
    \cup [exit : {"timeout"}, stderr : {<<>>}, made_dir : BOOLEAN, artifact : {"none"}, draft : {0}]
    \cup [exit : {"zero"}, stderr : stderrs, made_dir : {TRUE}, artifact : {"ok"}, draft : Drafts]
    \cup [exit : {"zero"}, stderr : stderrs, made_dir : {TRUE}, artifact : {"malformed"}, draft : {0}]
    \cup [exit : {"zero"}, stderr : stderrs, made_dir : BOOLEAN, artifact : {"missing"}, draft : {0}]

stderr_output_KeepsHead(stderr) ==
    IF Len(stderr) > MAX_STDERR_OUTPUT
    THEN Ellipsis \o SubSeq(stderr, 1, MAX_STDERR_OUTPUT)
    ELSE stderr

\* lines 70-72
stderr_output(stderr) ==
    IF Len(stderr) > MAX_STDERR_OUTPUT
    THEN Ellipsis \o LastChars(stderr, MAX_STDERR_OUTPUT)
    ELSE stderr

FailedPrompt(text) == [kind |-> "run_failed", text |-> text]
TimedOutPrompt == [kind |-> "run_timed_out"]
CompletedPrompt(n, res) == [kind |-> "run_completed", run |-> n, results |-> res, next_run |-> n + 1]
CoderPrompt == [kind |-> "coder_prompt", max_runs |-> MAX_RUNS]

\* the placeholders of the coder_prompt template besides max_runs, lines 18-27
VisionPlaceholders ==
    {"narrative_perspective", "theme", "novel_structure_models",
     "target_demographics", "core_connection", "unique_hook",
     "protagonist_choice", "tone_and_style", "world_expansion", "fan_service"}

\* idea[key] of the idea with index k in novel_ideas
IdeaField(k, key) == [src |-> "idea", idea |-> k, key |-> key]
\* the list literal [key], which belongs to no idea
ListLiteral(key) == [src |-> "literal", idea |-> 0, key |-> key]

\* lines 104-113: the keyword arguments given for the vision placeholders
VisionArgs(k) ==
    [p \in VisionPlaceholders |->
        IF p = "novel_structure_models" THEN ListLiteral(p) ELSE IdeaField(k, p)]

\* lines 103-115: coder_prompt.format(...) puts each keyword argument in the
\* place of the placeholder of its name
coder_prompt_format(vision, max_runs) ==
    [kind |-> "coder_prompt", max_runs |-> max_runs,
     vision |-> [p \in VisionPlaceholders |-> vision[p]]]

\* coder.run was not called yet
NoPrompt == [kind |-> "none"]
\* no process was launched yet
NoProc == [exit |-> "none"]

rmtree_Noop(dirs, run_num) == dirs

\* lines 67-68 and 93-94: shutil.rmtree of run_<n> if it exists
rmtree(dirs, run_num) == dirs \ {run_num}

\* run_experiment(folder_name, run_num) on a process that behaves as p, with
\* the run directories dirs: what it returns or raises, and the directories left
run_experiment(run_num, p, dirs) ==
    LET after == IF p.made_dir THEN dirs \cup {run_num} ELSE dirs
    IN  CASE p.exit = "timeout" ->
                [raised |-> FALSE, returncode |-> 1, next_prompt |-> TimedOutPrompt,
                 results |-> EmptyDict, dirs |-> rmtree(after, run_num)]
          [] p.exit = "nonzero" ->
                [raised |-> FALSE, returncode |-> 1,
                 next_prompt |-> FailedPrompt(stderr_output(p.stderr)),
                 results |-> EmptyDict, dirs |-> rmtree(after, run_num)]
          [] p.exit = "zero" /\ p.artifact = "ok" ->
                [raised |-> FALSE, returncode |-> 0,
                 next_prompt |-> CompletedPrompt(run_num, ResultsJson(p.draft)),
                 results |-> ResultsJson(p.draft), dirs |-> after]
          [] OTHER ->
                [raised |-> TRUE, returncode |-> 0, next_prompt |-> CoderPrompt,
                 results |-> EmptyDict, dirs |-> after]
\* -------------------------------------------------------- perform_experiments
LoopContinues_LateCeiling(r, ci) == r < MAX_RUNS + 1 /\ ~(ci > MAX_ITERS)

\* the loop's guards, lines 116-117
LoopContinues(r, ci) == r < MAX_RUNS + 1 /\ ~(ci >= MAX_ITERS)

NextRun_AlwaysAdvance(return_code, r) == r + 1

\* lines 125-126: the run counter after an attempt that returned return_code
NextRun(return_code, r) == IF return_code = 0 THEN r + 1 ELSE r

NextIter_FailureUncounted(return_code, ci) == IF return_code = 0 THEN 1 ELSE ci

\* lines 125-128: the counter after an attempt that returned return_code
NextIter(return_code, ci) == (IF return_code = 0 THEN 0 ELSE ci) + 1

\* lines 129-133: what the function does once the loop is left; reading the
\* unbound local `results` raises UnboundLocalError
PEReturn(ci, res) ==
    IF ~res.bound THEN "raised"
    ELSE IF ci >= MAX_ITERS THEN "failure" ELSE "success"

PEExit ==
    /\ pe_outcome' = PEReturn(current_iter, results)
    /\ pe_exc' = IF PEReturn(current_iter, results) = "raised"
                 THEN "UnboundLocalError" ELSE ""
    /\ di_pc' = "after_pe"

\* lines 101-115
PEEnter ==
    /\ di_pc = "pe_enter"
    /\ current_iter' = 0
    /\ run' = 1
    /\ next_prompt' = coder_prompt_format(VisionArgs(di_idea), MAX_RUNS)
    /\ results' = Unbound
    /\ last_attempt' = 0
    /\ n_success' = 0
    /\ fails_in_row' = 0
    /\ marker_seen' = FALSE
    /\ pe_exc' = ""
    /\ run_dirs' = {}
    /\ coder_in' = NoPrompt
    /\ coder_calls' = 0
    /\ run_calls' = 0
    /\ ok_results' = EmptyDict
    /\ proc' = NoProc
    /\ di_pc' = "pe_loop"
    /\ UNCHANGED <<di_idea, log_file, di_ret, di_exc, pe_outcome, writeup_called,
                   writeup_done>>
    /\ UNCHANGED launcher_vars
    /\ UNCHANGED <<re_pc, gi_vars, par_vars, pw_vars>>

\* lines 116-119, and 129-133 when the loop is left
PELoopTop ==
    /\ di_pc = "pe_loop"
    /\ IF LoopContinues(run, current_iter)
       THEN di_pc' = "pe_coder" /\ UNCHANGED <<pe_outcome, pe_exc>>
       ELSE PEExit
    /\ UNCHANGED <<di_idea, log_file, di_ret, di_exc, writeup_called,
                   writeup_done>>
    /\ UNCHANGED <<current_iter, run, next_prompt, results, last_attempt, n_success,
                   fails_in_row, marker_seen, run_dirs, coder_in, coder_calls,
                   run_calls, ok_results>>
    /\ UNCHANGED launcher_vars
    /\ UNCHANGED other_vars

\* lines 120-123 (and 129-133 on break): coder.run answers, with or without
\* the completion marker, or raises
PECoderRun ==
    /\ di_pc = "pe_coder"
    /\ \E reply \in {"plain", "ALL_COMPLETED", "raise"} :
          /\ marker_seen' = (reply = "ALL_COMPLETED")
          /\ coder_in' = next_prompt
          /\ coder_calls' = coder_calls + 1
          /\ CASE reply = "raise" ->
                    pe_outcome' = "raised" /\ pe_exc' = "CoderError" /\ di_pc' = "after_pe"
               [] reply = "ALL_COMPLETED" -> PEExit
               [] OTHER -> di_pc' = "pe_run" /\ UNCHANGED <<pe_outcome, pe_exc>>
    /\ UNCHANGED <<di_idea, log_file, di_ret, di_exc, writeup_called,
                   writeup_done>>
    /\ UNCHANGED <<current_iter, run, next_prompt, results, last_attempt, n_success,
                   fails_in_row, run_dirs, run_calls, ok_results>>
    /\ UNCHANGED launcher_vars
    /\ UNCHANGED other_vars

\* lines 124-128, with the whole of run_experiment (lines 41-96)
PERunExperiment ==
    /\ di_pc = "pe_run"
    /\ \E p \in ProcOutcome(ShortStderr) :
          LET r == run_experiment(run, p, run_dirs)
          IN  /\ last_attempt' = run
              /\ run_dirs' = r.dirs
              /\ proc' = p
              /\ run_calls' = run_calls + 1
              /\ IF r.raised
                 THEN /\ pe_exc' = "ArtifactError"
                      /\ pe_outcome' = "raised"
                      /\ di_pc' = "after_pe"
                      /\ UNCHANGED <<current_iter, run, next_prompt, results,
                                     n_success, fails_in_row, ok_results>>
                 ELSE /\ next_prompt' = r.next_prompt
                      /\ results' = Bound(r.results)
                      /\ run' = NextRun(r.returncode, run)
                      /\ current_iter' = NextIter(r.returncode, current_iter)
                      /\ n_success' = IF r.returncode = 0 THEN n_success + 1 ELSE n_success
                      /\ fails_in_row' = IF r.returncode = 0 THEN 0 ELSE fails_in_row + 1
                      /\ ok_results' = IF r.returncode = 0 THEN r.results ELSE ok_results
                      /\ di_pc' = "pe_loop"
                      /\ UNCHANGED <<pe_exc, pe_outcome>>
    /\ UNCHANGED <<di_idea, log_file, di_ret, di_exc, writeup_called, writeup_done,
                   marker_seen, coder_in, coder_calls>>
    /\ UNCHANGED launcher_vars
    /\ UNCHANGED <<re_pc, gi_vars, par_vars, pw_vars>>

\* -------------------------------------------------------------------- do_idea
\* lines 120-145, before the try block: folder assert, copytree, baseline
\* results, notes.txt; idea['Name'] is read at line 122
DoIdeaSetup ==
    /\ di_pc = "setup"
    /\ IF novel_ideas[di_idea].Name = Missing
       THEN di_pc' = "raised" /\ di_exc' = "KeyError"
       ELSE \E e \in {"", "AssertionError", "KeyError"} :
               /\ di_exc' = e
               /\ di_pc' = IF e = "" THEN "create_coder" ELSE "raised"
    /\ UNCHANGED <<di_idea, log_file, di_ret, pe_outcome, writeup_called,
                   writeup_done>>
    /\ UNCHANGED pe_vars
    /\ UNCHANGED launcher_vars
    /\ UNCHANGED other_vars

\* lines 146-169; an exception here is caught at line 209
DoIdeaCreateCoder ==
    /\ di_pc = "create_coder"
    /\ \E ok \in BOOLEAN :
          IF ok
          THEN di_pc' = "pe_enter" /\ UNCHANGED di_ret
          ELSE di_pc' = "finally" /\ di_ret' = "False"
    /\ UNCHANGED <<di_idea, log_file, di_exc, pe_outcome, writeup_called,
                   writeup_done>>
    /\ UNCHANGED pe_vars
    /\ UNCHANGED launcher_vars
    /\ UNCHANGED other_vars

\* lines 170-179: does do_idea go on to the writeup stage
ProceedsToWriteup(outcome) == outcome = "success"

\* lines 170-200
DoIdeaAfterExperiments ==
    /\ di_pc = "after_pe"
    /\ IF ProceedsToWriteup(pe_outcome)
       THEN \E ok \in BOOLEAN :
               IF ok
               THEN di_pc' = "writeup" /\ UNCHANGED di_ret
               ELSE di_pc' = "finally" /\ di_ret' = "False"
       ELSE di_pc' = "finally" /\ di_ret' = "False"
    /\ UNCHANGED <<di_idea, log_file, di_exc, pe_outcome, writeup_called,
                   writeup_done>>
    /\ UNCHANGED pe_vars
    /\ UNCHANGED launcher_vars
    /\ UNCHANGED other_vars

\* lines 201-206 and the fall off the end of the function: perform_writeup
\* reads results["model_response"] and may fail anywhere in its script
DoIdeaWriteup ==
    /\ di_pc = "writeup"
    /\ writeup_called' = TRUE
    /\ \E ok \in BOOLEAN :
          IF ok /\ HasKey(results.val, "model_response")
          THEN di_ret' = "None" /\ writeup_done' = TRUE
          ELSE di_ret' = "False" /\ writeup_done' = FALSE
    /\ di_pc' = "finally"
    /\ UNCHANGED <<di_idea, log_file, di_exc, pe_outcome>>
    /\ UNCHANGED pe_vars
    /\ UNCHANGED launcher_vars
    /\ UNCHANGED other_vars

\* lines 212-217: original_stdout, original_stderr and log are defined nowhere
FinallyRaises(lf) == lf

DoIdeaFinally ==
    /\ di_pc = "finally"
    /\ IF FinallyRaises(log_file)
       THEN di_pc' = "raised" /\ di_exc' = "NameError"
       ELSE di_pc' = "returned" /\ UNCHANGED di_exc
    /\ UNCHANGED <<di_idea, log_file, di_ret, pe_outcome, writeup_called,
                   writeup_done>>
    /\ UNCHANGED pe_vars
    /\ UNCHANGED launcher_vars
    /\ UNCHANGED other_vars

\* the call itself
CallDoIdea(k, lf) ==
    /\ di_pc' = "setup"
    /\ di_idea' = k
    /\ log_file' = lf
    /\ di_ret' = "None"
    /\ di_exc' = ""
    /\ pe_outcome' = "none"
    /\ writeup_called' = FALSE
    /\ writeup_done' = FALSE
    /\ called' = Append(called, k)

\* ------------------------------------------------------------------- launcher
None == 0

\* lines 284-296 and 301
SequentialNext ==
    /\ l_pc = "main"
    /\ parallel = 0
    /\ IF idx > Len(novel_ideas)
       THEN l_pc' = "done" /\ UNCHANGED <<do_idea_vars, called>>
       ELSE IF novel_ideas[idx].Name = Missing
       THEN l_pc' = "crashed" /\ UNCHANGED <<do_idea_vars, called>>
       ELSE l_pc' = "in_do_idea" /\ CallDoIdea(idx, FALSE)
    /\ UNCHANGED <<novel_ideas, parallel, idx, queue, w_pc, raised_for>>
    /\ UNCHANGED pe_vars
    /\ UNCHANGED other_vars

\* the exception classes derived from Exception that the model raises
ExceptionSubclasses ==
    {"AssertionError", "KeyError", "NameError", "UnboundLocalError",
     "CoderError", "ArtifactError"}

LoopCatches_OnlyNameError(exc) == exc = "NameError"

\* lines 287 and 298: `except Exception` around the do_idea call
LoopCatches(exc) == exc \in ExceptionSubclasses

\* lines 297-299
SequentialReturn ==
    /\ l_pc = "in_do_idea"
    /\ di_pc \in {"returned", "raised"}
    /\ IF di_pc = "raised" /\ ~LoopCatches(di_exc)
       THEN l_pc' = "crashed" /\ UNCHANGED <<idx, di_pc>>
       ELSE l_pc' = "main" /\ idx' = idx + 1 /\ di_pc' = "idle"
    /\ raised_for' = IF di_pc = "raised" THEN raised_for \cup {di_idea} ELSE raised_for
    /\ UNCHANGED <<novel_ideas, parallel, queue, w_pc, called>>
    /\ UNCHANGED <<di_idea, log_file, di_ret, di_exc, pe_outcome, writeup_called,
                   writeup_done>>
    /\ UNCHANGED pe_vars
    /\ UNCHANGED other_vars

\* lines 250-274: the ideas are queued and the worker process is started
ParallelStart ==
    /\ l_pc = "main"
    /\ parallel > 0
    /\ queue' = [k \in 1..Len(novel_ideas) |-> k]
    /\ w_pc' = "get"
    /\ l_pc' = "started"
    /\ UNCHANGED <<novel_ideas, parallel, idx, called, raised_for>>
    /\ UNCHANGED do_idea_vars
    /\ UNCHANGED pe_vars
    /\ UNCHANGED other_vars

\* lines 276-278
ParallelSentinels ==
    /\ l_pc = "started"
    /\ queue' = queue \o [k \in 1..parallel |-> None]
    /\ l_pc' = "join"
    /\ UNCHANGED <<novel_ideas, parallel, idx, w_pc, called, raised_for>>
    /\ UNCHANGED do_idea_vars
    /\ UNCHANGED pe_vars
    /\ UNCHANGED other_vars

\* lines 280-283 and 301
ParallelJoin ==
    /\ l_pc = "join"
    /\ w_pc \in {"finished", "crashed"}
    /\ l_pc' = "done"
    /\ UNCHANGED <<novel_ideas, parallel, idx, queue, w_pc, called, raised_for>>
    /\ UNCHANGED do_idea_vars
    /\ UNCHANGED pe_vars
    /\ UNCHANGED other_vars

\* lines 92-105
WorkerGet ==
    /\ w_pc = "get"
    /\ queue # <<>>
    /\ queue' = Tail(queue)
    /\ IF Head(queue) = None
       THEN w_pc' = "finished" /\ UNCHANGED <<do_idea_vars, called>>
       ELSE w_pc' = "in_do_idea" /\ CallDoIdea(Head(queue), TRUE)
    /\ UNCHANGED <<novel_ideas, parallel, l_pc, idx, raised_for>>
    /\ UNCHANGED pe_vars
    /\ UNCHANGED other_vars

\* line 106, or the exception leaving the worker's loop
WorkerReturn ==
    /\ w_pc = "in_do_idea"
    /\ di_pc \in {"returned", "raised"}
    /\ w_pc' = IF di_pc = "returned" THEN "get" ELSE "crashed"
    /\ di_pc' = "idle"
    /\ raised_for' = IF di_pc = "raised" THEN raised_for \cup {di_idea} ELSE raised_for
    /\ UNCHANGED <<novel_ideas, parallel, l_pc, idx, queue, called>>
    /\ UNCHANGED <<di_idea, log_file, di_ret, di_exc, pe_outcome, writeup_called,
                   writeup_done>>
    /\ UNCHANGED pe_vars
    /\ UNCHANGED other_vars

\* ------------------------------------------------------------- generate_ideas
\* ideas asked for per call (max_num_generations, --num-ideas)
MaxGenerations == 2
\* round budgets tried besides the default
MaxReflections == 2
\* skip runs in a row that are counted
MaxStreak == 2
\* line 94: the launcher passes no num_reflections
NumReflectionsDefault == 5

\* the JSON objects the model can answer with: two that differ
Payloads == {1, 2}
\* extract_json_between_markers found nothing to decode
NoJson == 0
\* an idea that was abandoned
Failed == NoJson

\* a JSON text: whether it decodes, the value it decodes to, and its layout
JsonText(val, layout) == [decodes |-> TRUE, val |-> val, layout |-> layout]
Malformed == [decodes |-> FALSE, val |-> <<>>, layout |-> "none"]
NoFile == [exists |-> FALSE, text |-> Malformed]
File(text) == [exists |-> TRUE, text |-> text]

\* json.loads / json.load on a text that decodes
json_loads(text) == text.val
\* json.dumps(json_output), line 195
json_dumps(obj) == JsonText(obj, "compact")
\* json.dump(ideas, f, indent=4), line 203
json_dump(obj) == JsonText(obj, "indent=4")

LauncherDump_Compact(obj) == JsonText(obj, "compact")

\* launch_novelist.py line 246: json.dump(ideas, f, indent=4)
LauncherDump(obj) == JsonText(obj, "indent=4")

\* what a model call can come back with: an exception, or a text that holds
\* a decodable JSON region or not, and the phrase "I am done" or not
Replies ==
    [err : {FALSE}, json : {NoJson} \cup Payloads, marker : BOOLEAN]
    \cup {[err |-> TRUE, json |-> NoJson, marker |-> FALSE]}

\* ai_novelist.llm: returns the reply text and the history grown by the
\* prompt and the reply
get_response_from_llm(msg, history, reply) ==
    [text |-> reply,
     msg_history |-> history \o <<msg, [role |-> "assistant", idea |-> msg.idea,
                                        round |-> msg.round]>>]

\* ai_novelist.llm: the decoded JSON region of the text, or None
extract_json_between_markers(text) == text.json

Converged_Never(text) == FALSE

\* line 191: "I am done" in text
Converged(text) == text.marker

\* line 173
RunsReflections(n) == n > 1

MoreReflections_OneMore(jj, n) == jj + 1 < n

\* line 174: range(num_reflections - 1) has a value after jj
MoreReflections(jj, n) == jj + 1 < n - 1

OnException_Break(ii, n) == n

\* lines 196-198: `continue` takes the outer loop to its next index
OnException(ii, n) == ii + 1

NewHistory_Stale == msg_history

\* line 152: msg_history = []
NewHistory == <<>>

Reassign_KeepsOld(old, new) == IF new = NoJson THEN new ELSE old

\* line 185: json_output = extract_json_between_markers(text) takes the place
\* of the object of the round before
Reassign(old, new) == new

\* the seed ideas of seed_idea.json, if the file exists (lines 139-142)
SeedIdeas == {<<>>, <<CHOOSE p \in Payloads : TRUE>>}

\* lines 143-145 and 168-170: json.dumps of each element the iteration yields
Items(elements) == [k \in 1..Len(elements) |-> json_dumps(elements[k])]

\* line 169, `for o in json_output`: iterating the parsed object yields its
\* elements (of a dict, its keys), not the object; -obj stands for them
Elements(obj) == <<-obj>>

\* the replies heard for one idea, summed up
FreshCur ==
    [rounds |-> 0, all_parsed |-> TRUE, last_json |-> NoJson,
     first_marker |-> FALSE, reflect_marker |-> FALSE]

Heard(c, reply, round) ==
    [rounds |-> round,
     all_parsed |-> c.all_parsed /\ ~reply.err /\ reply.json # NoJson,
     last_json |-> IF reply.err THEN c.last_json ELSE reply.json,
     first_marker |-> IF round = 1 THEN reply.marker ELSE c.first_marker,
     reflect_marker |-> IF round > 1 THEN reply.marker ELSE c.reflect_marker]

Verdict(c) == IF c.all_parsed THEN c.last_json ELSE Failed

\* line 148: the outer loop goes on with index ii, or is over
LoopAt(ii) ==
    /\ i' = ii
    /\ gi_pc' = IF ii < max_num_generations THEN "first" ELSE "write"

main_vars == <<launcher_vars, do_idea_vars, pe_vars, re_vars, par_vars, pw_vars>>

\* generate_ideas has returned: its locals are gone
LocalsDropped ==
    /\ i' = 0
    /\ j' = 0
    /\ msg_history' = <<>>
    /\ json_output' = NoJson
    /\ seed_ideas' = <<>>
    /\ prev_idea' = <<>>
    /\ idea_str_archive' = <<>>
    /\ llm_calls' = 0
    /\ cur' = FreshCur
    /\ idea_log' = <<>>

\* a program run begins: the launcher (launch_novelist.py lines 237-243) or
\* another caller (generate_ideas.py lines 236-243) calls generate_ideas
GenerateIdeasCall ==
    /\ gi_pc \in {"idle", "exit", "raised"}
    /\ \E c \in {"launcher", "direct"}, skip \in BOOLEAN,
          n \in 0..MaxGenerations, r \in 1..MaxReflections :
          /\ caller' = c
          /\ skip_generation' = skip
          /\ max_num_generations' = n
          /\ num_reflections' = IF c = "launcher" THEN NumReflectionsDefault ELSE r
    /\ gi_pc' = "skip_check"
    /\ ideas' = <<>>
    /\ LocalsDropped
    /\ UNCHANGED <<ideas_json, streak, streak_file>>
    /\ UNCHANGED main_vars

SkipLoads_AnyFile(file) == file.exists

\* lines 119-129: open and json.load of ideas.json raise neither
\* FileNotFoundError nor json.JSONDecodeError
SkipLoads(file) == file.exists /\ file.text.decodes

\* lines 118-129
SkipCheck ==
    /\ gi_pc = "skip_check"
    /\ IF skip_generation /\ SkipLoads(ideas_json)
       THEN /\ ideas' = json_loads(ideas_json.text)
            /\ gi_pc' = "returned"
            /\ streak' = IF streak < MaxStreak THEN streak + 1 ELSE streak
            /\ streak_file' = IF streak = 0 THEN ideas_json ELSE streak_file
       ELSE /\ gi_pc' = "load_inputs"
            /\ streak' = 0
            /\ streak_file' = NoFile
            /\ UNCHANGED ideas
    /\ UNCHANGED <<ideas_json, caller, skip_generation, max_num_generations,
                   num_reflections, i, j, msg_history, json_output, seed_ideas,
                   prev_idea, idea_str_archive, llm_calls, cur, idea_log>>
    /\ UNCHANGED main_vars

\* lines 131-148: prompt.json, original_work_info.json and seed_idea.json are
\* read; a missing file raises to the caller
LoadInputs ==
    /\ gi_pc = "load_inputs"
    /\ \E ok \in BOOLEAN, seeds \in SeedIdeas :
          IF ok
          THEN /\ idea_str_archive' = <<>>
               /\ seed_ideas' = seeds
               /\ prev_idea' = Items(seeds)
               /\ LoopAt(0)
          ELSE /\ gi_pc' = "raised"
               /\ UNCHANGED <<idea_str_archive, i, seed_ideas, prev_idea>>
    /\ UNCHANGED <<ideas_json, caller, skip_generation, max_num_generations,
                   num_reflections, j, msg_history, json_output, ideas,
                   llm_calls, cur, idea_log, streak, streak_file>>
    /\ UNCHANGED main_vars

\* line 195, and the outer loop's step
RecordIdea(obj) ==
    /\ idea_str_archive' = Append(idea_str_archive, json_dumps(obj))
    /\ LoopAt(i + 1)

\* lines 196-198
AbandonIdea ==
    /\ LoopAt(OnException(i, max_num_generations))
    /\ UNCHANGED idea_str_archive

\* lines 149-173, and 195-198 when no reflection follows: the first draft
FirstDraft ==
    /\ gi_pc = "first"
    /\ \E reply \in Replies :
          LET got == get_response_from_llm([role |-> "user", idea |-> i, round |-> 1,
                                            embeds |-> prev_idea],
                                           NewHistory, reply)
              parsed == extract_json_between_markers(got.text)
          IN  /\ llm_calls' = llm_calls + 1
              /\ cur' = Heard(FreshCur, reply, 1)
              /\ msg_history' = IF reply.err THEN NewHistory ELSE got.msg_history
              /\ json_output' = IF reply.err THEN json_output ELSE parsed
              /\ prev_idea' = IF reply.err \/ parsed = NoJson
                              THEN prev_idea ELSE Items(Elements(parsed))
              /\ IF reply.err \/ parsed = NoJson
                 THEN /\ AbandonIdea
                      /\ idea_log' = Append(idea_log, Verdict(cur'))
                      /\ UNCHANGED j
                 ELSE IF RunsReflections(num_reflections)
                 THEN /\ j' = 0
                      /\ gi_pc' = "reflect"
                      /\ UNCHANGED <<i, idea_str_archive, idea_log>>
                 ELSE /\ RecordIdea(parsed)
                      /\ idea_log' = Append(idea_log, Verdict(cur'))
                      /\ UNCHANGED j
    /\ UNCHANGED <<ideas_json, caller, skip_generation, max_num_generations,
                   num_reflections, ideas, streak, streak_file, seed_ideas>>
    /\ UNCHANGED main_vars

\* lines 174-198: one reflection round
Reflect ==
    /\ gi_pc = "reflect"
    /\ \E reply \in Replies :
          LET got == get_response_from_llm([role |-> "user", idea |-> i, round |-> j + 2,
                                            embeds |-> <<>>],
                                           msg_history, reply)
              parsed == extract_json_between_markers(got.text)
          IN  /\ llm_calls' = llm_calls + 1
              /\ cur' = Heard(cur, reply, j + 2)
              /\ msg_history' = IF reply.err THEN msg_history ELSE got.msg_history
              /\ json_output' = IF reply.err THEN json_output
                                ELSE Reassign(json_output, parsed)
              /\ IF reply.err \/ parsed = NoJson
                 THEN /\ AbandonIdea
                      /\ idea_log' = Append(idea_log, Verdict(cur'))
                      /\ UNCHANGED j
                 ELSE IF ~Converged(got.text) /\ MoreReflections(j, num_reflections)
                 THEN /\ j' = j + 1
                      /\ UNCHANGED <<gi_pc, i, idea_str_archive, idea_log>>
                 ELSE /\ RecordIdea(json_output')
                      /\ idea_log' = Append(idea_log, Verdict(cur'))
                      /\ UNCHANGED j
    /\ UNCHANGED <<ideas_json, caller, skip_generation, max_num_generations,
                   num_reflections, ideas, streak, streak_file, seed_ideas, prev_idea>>
    /\ UNCHANGED main_vars

\* lines 200-205
WriteIdeas ==
    /\ gi_pc = "write"
    /\ ideas' = [k \in 1..Len(idea_str_archive) |-> json_loads(idea_str_archive[k])]
    /\ ideas_json' = File(json_dump(ideas'))
    /\ gi_pc' = "returned"
    /\ UNCHANGED <<caller, skip_generation, max_num_generations, num_reflections,
                   i, j, msg_history, json_output, seed_ideas, prev_idea,
                   idea_str_archive, llm_calls, cur, idea_log, streak, streak_file>>
    /\ UNCHANGED main_vars

\* launch_novelist.py lines 245-248: the launcher writes ideas.json again
LauncherWriteIdeas ==
    /\ gi_pc = "returned"
    /\ caller = "launcher"
    /\ ideas_json' = File(LauncherDump(ideas))
    /\ gi_pc' = "exit"
    /\ LocalsDropped
    /\ UNCHANGED <<caller, skip_generation, max_num_generations, num_reflections,
                   ideas, streak, streak_file>>
    /\ UNCHANGED main_vars

\* generate_ideas.py lines 236-243: the other caller only keeps the list
DirectReturn ==
    /\ gi_pc = "returned"
    /\ caller = "direct"
    /\ gi_pc' = "exit"
    /\ LocalsDropped
    /\ UNCHANGED <<ideas_json, caller, skip_generation, max_num_generations,
                   num_reflections, ideas, streak, streak_file>>
    /\ UNCHANGED main_vars

InitIdeasIdle ==
    /\ ideas_json = NoFile
    /\ gi_pc = "idle"
    /\ caller = "launcher"
    /\ skip_generation = FALSE
    /\ max_num_generations = 0
    /\ num_reflections = NumReflectionsDefault
    /\ i = 0
    /\ j = 0
    /\ msg_history = <<>>
    /\ json_output = NoJson
    /\ seed_ideas = <<>>
    /\ prev_idea = <<>>
    /\ idea_str_archive = <<>>
    /\ ideas = <<>>
    /\ llm_calls = 0
    /\ cur = FreshCur
    /\ idea_log = <<>>
    /\ streak = 0
    /\ streak_file = NoFile

\* ---------------------------------------- worker processes and idea folders
\* worker processes asked for (--parallel)
MaxParallel == 2
\* devices in the list of get_available_gpus
MaxGpus == 2
\* seconds the clock can go on by itself
MaxClock == 1

Devices == 0..(MaxGpus - 1)
Processes == 0..MaxParallel
\* process 0 is the launcher itself, which runs do_idea in sequential mode
Main == 0

NotStarted ==
    [pc |-> "none", gpu_id |-> -1, cuda |-> -1, idea |-> 0, stamp |-> -1, exc |-> ""]

InitParallelIdle ==
    /\ available_gpus = <<>>
    /\ processes = 0
    /\ exec = [w \in Processes |-> NotStarted]
    /\ clock = 0
    /\ folders = {}
    /\ writes = {}
    /\ do_idea_calls = <<>>

\* what the launcher and its workers leave alone in this view of the program
seq_vars == <<do_idea_vars, pe_vars, re_vars, gi_vars, pw_vars, w_pc, called,
              raised_for>>

\* lines 225-229: no more processes than devices in the list
CapParallel(p, gpus) == IF p > Len(gpus) THEN Len(gpus) ELSE p

\* line 258: available_gpus[i % len(available_gpus)], i counted from 0
GpuOf(k, gpus) == gpus[(k % Len(gpus)) + 1]

\* lines 121-123: <results_dir>/<timestamp>_<Name>, the timestamp in seconds
FolderName(stamp, name) == <<stamp, name>>
FolderOf(w) == FolderName(exec[w].stamp, novel_ideas[exec[w].idea].Name)

\* the do_idea call process w is in
CallOf(w) == <<w, exec[w].idea>>

\* lines 223-229
CheckGpus ==
    /\ l_pc = "args"
    /\ parallel' = CapParallel(parallel, available_gpus)
    /\ l_pc' = "main"
    /\ UNCHANGED <<novel_ideas, idx, queue>>
    /\ UNCHANGED par_vars
    /\ UNCHANGED seq_vars

\* lines 250-254
FillQueue ==
    /\ l_pc = "main"
    /\ parallel > 0
    /\ queue' = [k \in 1..Len(novel_ideas) |-> k]
    /\ l_pc' = "start"
    /\ UNCHANGED <<novel_ideas, parallel, idx>>
    /\ UNCHANGED par_vars
    /\ UNCHANGED seq_vars

\* lines 257-272: Process(target=worker, args=(..., gpu_id)).start()
StartProcess ==
    /\ l_pc = "start"
    /\ processes < parallel
    /\ exec' = [exec EXCEPT ![processes + 1] =
                    [NotStarted EXCEPT !.pc = "pin",
                                       !.gpu_id = GpuOf(processes, available_gpus)]]
    /\ processes' = processes + 1
    /\ l_pc' = "sleep"
    /\ UNCHANGED <<novel_ideas, parallel, idx, queue>>
    /\ UNCHANGED <<available_gpus, clock, folders, writes, do_idea_calls>>
    /\ UNCHANGED seq_vars

\* lines 273-274: time.sleep(150), after which the timestamp has changed
Sleep ==
    /\ l_pc = "sleep"
    /\ clock' = clock + 1
    /\ l_pc' = "start"
    /\ UNCHANGED <<novel_ideas, parallel, idx, queue>>
    /\ UNCHANGED <<available_gpus, processes, exec, folders, writes, do_idea_calls>>
    /\ UNCHANGED seq_vars

\* lines 276-278
PutSentinels ==
    /\ l_pc = "start"
    /\ processes = parallel
    /\ queue' = queue \o [k \in 1..parallel |-> None]
    /\ l_pc' = "join"
    /\ UNCHANGED <<novel_ideas, parallel, idx>>
    /\ UNCHANGED par_vars
    /\ UNCHANGED seq_vars

\* lines 280-283 and 301: join returns for a process that ended either way
JoinProcesses ==
    /\ l_pc = "join"
    /\ \A w \in 1..parallel : exec[w].pc \in {"finished", "crashed"}
    /\ l_pc' = "done"
    /\ UNCHANGED <<novel_ideas, parallel, idx, queue>>
    /\ UNCHANGED par_vars
    /\ UNCHANGED seq_vars

\* lines 90-91: os.environ of the worker's own process
PinDevice(w) ==
    /\ exec[w].pc = "pin"
    /\ exec' = [exec EXCEPT ![w].cuda = exec[w].gpu_id, ![w].pc = "get"]
    /\ UNCHANGED <<novel_ideas, parallel, l_pc, idx, queue>>
    /\ UNCHANGED <<available_gpus, processes, clock, folders, writes, do_idea_calls>>
    /\ UNCHANGED seq_vars

\* lines 92-105: queue.get() blocks while the queue is empty
QueueGet(w) ==
    /\ exec[w].pc = "get"
    /\ queue # <<>>
    /\ queue' = Tail(queue)
    /\ IF Head(queue) = None
       THEN /\ exec' = [exec EXCEPT ![w].pc = "finished"]
            /\ UNCHANGED do_idea_calls
       ELSE /\ exec' = [exec EXCEPT ![w].pc = "stamp", ![w].idea = Head(queue),
                                    ![w].exc = ""]
            /\ do_idea_calls' = [do_idea_calls EXCEPT ![Head(queue)] = @ + 1]
    /\ UNCHANGED <<novel_ideas, parallel, l_pc, idx>>
    /\ UNCHANGED <<available_gpus, processes, clock, folders, writes>>
    /\ UNCHANGED seq_vars

\* lines 121-123: datetime.now() and idea['Name']
FolderStamp(w) ==
    /\ exec[w].pc = "stamp"
    /\ IF novel_ideas[exec[w].idea].Name = Missing
       THEN exec' = [exec EXCEPT ![w].pc = "raised", ![w].exc = "KeyError"]
       ELSE exec' = [exec EXCEPT ![w].pc = "assert", ![w].stamp = clock]
    /\ UNCHANGED <<novel_ideas, parallel, l_pc, idx, queue>>
    /\ UNCHANGED <<available_gpus, processes, clock, folders, writes, do_idea_calls>>
    /\ UNCHANGED seq_vars

\* line 124: assert not osp.exists(folder_name)
AssertNoFolder(w) ==
    /\ exec[w].pc = "assert"
    /\ IF FolderOf(w) \in folders
       THEN exec' = [exec EXCEPT ![w].pc = "raised", ![w].exc = "AssertionError"]
       ELSE exec' = [exec EXCEPT ![w].pc = "copy"]
    /\ UNCHANGED <<novel_ideas, parallel, l_pc, idx, queue>>
    /\ UNCHANGED <<available_gpus, processes, clock, folders, writes, do_idea_calls>>
    /\ UNCHANGED seq_vars

\* lines 125-126: shutil.copytree(base_dir, folder_name, dirs_exist_ok=True)
CopyTree(w) ==
    /\ exec[w].pc = "copy"
    /\ folders' = folders \cup {FolderOf(w)}
    /\ writes' = writes \cup {<<FolderOf(w), CallOf(w)>>}
    /\ exec' = [exec EXCEPT ![w].pc = "work"]
    /\ UNCHANGED <<novel_ideas, parallel, l_pc, idx, queue>>
    /\ UNCHANGED <<available_gpus, processes, clock, do_idea_calls>>
    /\ UNCHANGED seq_vars

\* lines 127-211: the rest of the setup, which may raise, and the try block,
\* whose every exit goes through the finally block
RunIdea(w) ==
    /\ exec[w].pc = "work"
    /\ \E raises \in BOOLEAN :
          IF raises
          THEN exec' = [exec EXCEPT ![w].pc = "raised", ![w].exc = "KeyError"]
          ELSE exec' = [exec EXCEPT ![w].pc = "finally"]
    /\ UNCHANGED <<novel_ideas, parallel, l_pc, idx, queue>>
    /\ UNCHANGED <<available_gpus, processes, clock, folders, writes, do_idea_calls>>
    /\ UNCHANGED seq_vars

\* lines 212-217; the worker passes log_file=True (line 104), the sequential
\* loop leaves the default
Finally(w) ==
    /\ exec[w].pc = "finally"
    /\ IF FinallyRaises(w # Main)
       THEN exec' = [exec EXCEPT ![w].pc = "raised", ![w].exc = "NameError"]
       ELSE exec' = [exec EXCEPT ![w].pc = "returned"]
    /\ UNCHANGED <<novel_ideas, parallel, l_pc, idx, queue>>
    /\ UNCHANGED <<available_gpus, processes, clock, folders, writes, do_idea_calls>>
    /\ UNCHANGED seq_vars

\* line 106 and back to queue.get(), or the exception ends the process
WorkerAfterDoIdea(w) ==
    /\ w # Main
    /\ exec[w].pc \in {"returned", "raised"}
    /\ exec' = [exec EXCEPT ![w].pc = IF exec[w].pc = "returned" THEN "get" ELSE "crashed"]
    /\ UNCHANGED <<novel_ideas, parallel, l_pc, idx, queue>>
    /\ UNCHANGED <<available_gpus, processes, clock, folders, writes, do_idea_calls>>
    /\ UNCHANGED seq_vars

\* lines 284-296 and 301, the launcher's own process running do_idea
SequentialLoop ==
    /\ l_pc = "main"
    /\ parallel <= 0
    /\ IF idx > Len(novel_ideas)
       THEN l_pc' = "done" /\ UNCHANGED <<exec, do_idea_calls>>
       ELSE IF novel_ideas[idx].Name = Missing
       THEN l_pc' = "crashed" /\ UNCHANGED <<exec, do_idea_calls>>
       ELSE /\ l_pc' = "in_do_idea"
            /\ exec' = [exec EXCEPT ![Main] = [NotStarted EXCEPT !.pc = "stamp", !.idea = idx]]
            /\ do_idea_calls' = [do_idea_calls EXCEPT ![idx] = @ + 1]
    /\ UNCHANGED <<novel_ideas, parallel, idx, queue>>
    /\ UNCHANGED <<available_gpus, processes, clock, folders, writes>>
    /\ UNCHANGED seq_vars

\* lines 297-299
SequentialAfter ==
    /\ l_pc = "in_do_idea"
    /\ exec[Main].pc \in {"returned", "raised"}
    /\ IF exec[Main].pc = "raised" /\ ~LoopCatches(exec[Main].exc)
       THEN l_pc' = "crashed" /\ UNCHANGED idx
       ELSE l_pc' = "main" /\ idx' = idx + 1
    /\ exec' = [exec EXCEPT ![Main].pc = "none"]
    /\ UNCHANGED <<novel_ideas, parallel, queue>>
    /\ UNCHANGED <<available_gpus, processes, clock, folders, writes, do_idea_calls>>
    /\ UNCHANGED seq_vars

\* a second passes
Tick ==
    /\ clock < MaxClock
    /\ clock' = clock + 1
    /\ UNCHANGED <<novel_ideas, parallel, l_pc, idx, queue>>
    /\ UNCHANGED <<available_gpus, processes, exec, folders, writes, do_idea_calls>>
    /\ UNCHANGED seq_vars

\* ------------------------------------------- perform_writeup, generate_latex
\* line 14: num_error_corrections
NumErrorCorrections == 5
\* line 220: range(5)
SectionRounds == 5
\* line 253: range(2)
SecondRefinements == 2
\* duplicate figures, or section headers, found in template.tex at one reading
MaxDuplicates == 2

RECURSIVE Repeat(_, _)
Repeat(seq, n) == IF n = 0 THEN <<>> ELSE seq \o Repeat(seq, n - 1)

\* lines 168-258: the argument of each coder.run call of perform_writeup, in
\* the order of the calls; line 181 passes novel_prompt a second time
Script ==
    <<"novel_prompt", "novel_prompt", "tex_prompt", "title_prompt", "refinement_prompt">>
    \o Repeat(<<"section_prompt", "refinement_prompt">>, SectionRounds)
    \o <<"final_check_prompt">>
    \o Repeat(<<"second_refinement_prompt">>, SecondRefinements)

\* the prompts built between the call before call n and call n itself:
\* chapter_prompt is built at lines 170-180, ahead of the second call
BuiltFor(n) == {Script[n]} \cup (IF n = 2 THEN {"chapter_prompt"} ELSE {})

InitWriteupIdle ==
    /\ pw_pc = "idle"
    /\ pw_built = {}
    /\ pw_sent = <<>>
    /\ pw_latex = "none"
    /\ duplicates = 0
    /\ gl_i = 0

\* what perform_writeup and generate_latex leave alone
not_pw_vars == <<launcher_vars, do_idea_vars, pe_vars, re_vars, gi_vars, par_vars>>

\* lines 95-167: the fixed prompt texts, and novel_prompt, which reads
\* results["model_response"]
WriteupEnter ==
    /\ pw_pc = "enter"
    /\ IF HasKey(results.val, "model_response")
       THEN /\ pw_pc' = "script"
            /\ pw_built' = {"refinement_prompt", "second_refinement_prompt", "novel_prompt"}
       ELSE /\ pw_pc' = "raised"
            /\ pw_built' = {"refinement_prompt", "second_refinement_prompt"}
    /\ UNCHANGED <<pw_sent, pw_latex, duplicates, gl_i>>
    /\ UNCHANGED not_pw_vars

\* coder.run(prompt) returns, or raises
CoderRun(prompt, then_pc) ==
    /\ pw_sent' = Append(pw_sent, prompt)
    /\ \E raises \in BOOLEAN : pw_pc' = IF raises THEN "raised" ELSE then_pc

\* lines 168-258: the next coder.run call of the script
WriteupCoderRun ==
    /\ pw_pc = "script"
    /\ Len(pw_sent) < Len(Script)
    /\ pw_built' = pw_built \cup BuiltFor(Len(pw_sent) + 1)
    /\ CoderRun(Script[Len(pw_sent) + 1], "script")
    /\ UNCHANGED <<pw_latex, duplicates, gl_i>>
    /\ UNCHANGED not_pw_vars

\* line 260 and lines 14-23: generate_latex is called and reads template.tex
GenerateLatexEnter ==
    /\ pw_pc = "script"
    /\ Len(pw_sent) = Len(Script)
    /\ pw_latex' = "started"
    /\ \E d \in 0..MaxDuplicates : duplicates' = d
    /\ pw_pc' = "figures"
    /\ UNCHANGED <<pw_built, pw_sent, gl_i>>
    /\ UNCHANGED not_pw_vars

\* lines 24-29
FixDuplicateFigure ==
    /\ pw_pc = "figures"
    /\ duplicates > 0
    /\ duplicates' = duplicates - 1
    /\ CoderRun("duplicate_figure_prompt", "figures")
    /\ UNCHANGED <<pw_built, pw_latex, gl_i>>
    /\ UNCHANGED not_pw_vars

\* lines 31-35: template.tex is read again
ReadSections ==
    /\ pw_pc = "figures"
    /\ duplicates = 0
    /\ \E d \in 0..MaxDuplicates : duplicates' = d
    /\ pw_pc' = "sections"
    /\ UNCHANGED <<pw_built, pw_sent, pw_latex, gl_i>>
    /\ UNCHANGED not_pw_vars

\* lines 36-41
FixDuplicateSection ==
    /\ pw_pc = "sections"
    /\ duplicates > 0
    /\ duplicates' = duplicates - 1
    /\ CoderRun("duplicate_section_prompt", "sections")
    /\ UNCHANGED <<pw_built, pw_latex, gl_i>>
    /\ UNCHANGED not_pw_vars

\* lines 43-56: one pass of the chktex loop
ChktexRound ==
    /\ \/ pw_pc = "sections" /\ duplicates = 0
       \/ pw_pc = "chktex"
    /\ IF gl_i < NumErrorCorrections
       THEN \E check_output \in BOOLEAN :
               IF check_output
               THEN /\ gl_i' = gl_i + 1
                    /\ CoderRun("chktex_prompt", "chktex")
               ELSE /\ pw_pc' = "compile"
                    /\ UNCHANGED <<pw_sent, gl_i>>
       ELSE /\ pw_pc' = "compile"
            /\ UNCHANGED <<pw_sent, gl_i>>
    /\ UNCHANGED <<pw_built, pw_latex, duplicates>>
    /\ UNCHANGED not_pw_vars

\* lines 57 and 60-92: pdflatex three times; its failures are printed only
CompileLatex ==
    /\ pw_pc = "compile"
    /\ pw_latex' = "compiled"
    /\ pw_pc' = "returned"
    /\ UNCHANGED <<pw_built, pw_sent, duplicates, gl_i>>
    /\ UNCHANGED not_pw_vars

\* ------------------------------------------------------------- specification
InitLauncherIdle ==
    /\ novel_ideas = <<>>
    /\ parallel = 0
    /\ l_pc = "idle"
    /\ idx = 1
    /\ queue = <<>>
    /\ w_pc = "none"
    /\ called = <<>>
    /\ raised_for = {}

InitDoIdeaIdle ==
    /\ di_pc = "idle"
    /\ di_idea = 0
    /\ log_file = FALSE
    /\ di_ret = "None"
    /\ di_exc = ""
    /\ pe_outcome = "none"
    /\ writeup_called = FALSE
    /\ writeup_done = FALSE

InitExperimentsIdle ==
    /\ current_iter = 0
    /\ run = 1
    /\ next_prompt = CoderPrompt
    /\ results = Unbound
    /\ last_attempt = 0
    /\ n_success = 0
    /\ fails_in_row = 0
    /\ marker_seen = FALSE
    /\ pe_exc = ""
    /\ run_dirs = {}
    /\ coder_in = NoPrompt
    /\ coder_calls = 0
    /\ run_calls = 0
    /\ ok_results = EmptyDict

InitRunExperimentIdle ==
    /\ proc = NoProc
    /\ re_pc = "idle"

\* the launcher after generate_ideas returned (line 248)
Init ==
    /\ novel_ideas \in SeqsUpTo(Idea, MaxIdeas)
    /\ parallel \in {0, 1}
    /\ l_pc = "main"
    /\ idx = 1
    /\ queue = <<>>
    /\ w_pc = "none"
    /\ called = <<>>
    /\ raised_for = {}
    /\ InitDoIdeaIdle
    /\ InitExperimentsIdle
    /\ InitRunExperimentIdle
    /\ InitIdeasIdle
    /\ InitParallelIdle
    /\ InitWriteupIdle

Next ==
    \/ SequentialNext
    \/ SequentialReturn
    \/ ParallelStart
    \/ ParallelSentinels
    \/ ParallelJoin
    \/ WorkerGet
    \/ WorkerReturn
    \/ DoIdeaSetup
    \/ DoIdeaCreateCoder
    \/ PEEnter
    \/ PELoopTop
    \/ PECoderRun
    \/ PERunExperiment
    \/ DoIdeaAfterExperiments
    \/ DoIdeaWriteup
    \/ DoIdeaFinally

Spec == Init /\ [][Next]_vars

\* the same program when every call it makes comes back: the launcher, the
\* worker and do_idea are sequential code, coder.run is awaited (line 120) and
\* the experiment process is given a timeout (lines 41, 58-60)
SpecTerminates == Spec /\ WF_vars(Next)

\* ------------------------------------------- run_experiment on long stderr
\* how far beyond MAX_STDERR_OUTPUT the captured stderr goes
MaxExcess == 3

StderrLens == {0, 1} \cup ((MAX_STDERR_OUTPUT - 1)..(MAX_STDERR_OUTPUT + MaxExcess))

\* captured texts: all "a"; a leading "b"; a pattern with dots in it
StderrText(len, shape) ==
    [k \in 1..len |->
        CASE shape = 0 -> "a"
          [] shape = 1 -> IF k = 1 THEN "b" ELSE "a"
          [] OTHER -> IF k % 3 = 0 THEN "." ELSE IF k % 3 = 1 THEN "a" ELSE "b"]

LongStderr == {StderrText(len, shape) : len \in StderrLens, shape \in 0..2}

\* run_experiment(folder_name, run_num) called for attempt `run`, the
\* directories of the attempts before it in place
InitRunExperiment ==
    /\ InitLauncherIdle
    /\ InitDoIdeaIdle
    /\ current_iter = 0
    /\ run \in 1..MAX_RUNS
    /\ next_prompt = CoderPrompt
    /\ results = Unbound
    /\ last_attempt = 0
    /\ n_success = run - 1
    /\ fails_in_row = 0
    /\ marker_seen = FALSE
    /\ pe_exc = ""
    /\ run_dirs = 1..(run - 1)
    /\ coder_in = CoderPrompt
    /\ coder_calls = 1
    /\ run_calls = 0
    /\ ok_results = EmptyDict
    /\ proc \in ProcOutcome(LongStderr)
    /\ re_pc = "call"
    /\ InitIdeasIdle
    /\ InitParallelIdle
    /\ InitWriteupIdle

\* lines 41-96
RunExperimentCall ==
    /\ re_pc = "call"
    /\ LET r == run_experiment(run, proc, run_dirs)
       IN  /\ run_dirs' = r.dirs
           /\ last_attempt' = run
           /\ IF r.raised
              THEN /\ re_pc' = "raised"
                   /\ pe_exc' = "ArtifactError"
                   /\ UNCHANGED <<next_prompt, results>>
              ELSE /\ re_pc' = "returned"
                   /\ next_prompt' = r.next_prompt
                   /\ results' = Bound(r.results)
                   /\ UNCHANGED pe_exc
    /\ run_calls' = run_calls + 1
    /\ UNCHANGED <<current_iter, run, n_success, fails_in_row, marker_seen, proc,
                   coder_in, coder_calls, ok_results>>
    /\ UNCHANGED launcher_vars
    /\ UNCHANGED do_idea_vars
    /\ UNCHANGED gi_vars
    /\ UNCHANGED par_vars
    /\ UNCHANGED pw_vars

NextRunExperiment == RunExperimentCall

SpecRunExperiment == InitRunExperiment /\ [][NextRunExperiment]_vars
\* ------------------------------------ generate_ideas over repeated program runs
\* no ideas.json yet, or one that does not decode (a write that was cut short)
InitIdeas ==
    /\ InitLauncherIdle
    /\ InitDoIdeaIdle
    /\ InitExperimentsIdle
    /\ InitRunExperimentIdle
    /\ InitParallelIdle
    /\ InitWriteupIdle
    /\ ideas_json \in {NoFile, File(Malformed)}
    /\ gi_pc = "idle"
    /\ caller = "launcher"
    /\ skip_generation = FALSE
    /\ max_num_generations = 0
    /\ num_reflections = NumReflectionsDefault
    /\ i = 0
    /\ j = 0
    /\ msg_history = <<>>
    /\ json_output = NoJson
    /\ seed_ideas = <<>>
    /\ prev_idea = <<>>
    /\ idea_str_archive = <<>>
    /\ ideas = <<>>
    /\ llm_calls = 0
    /\ cur = FreshCur
    /\ idea_log = <<>>
    /\ streak = 0
    /\ streak_file = NoFile

NextIdeas ==
    \/ GenerateIdeasCall
    \/ SkipCheck
    \/ LoadInputs
    \/ FirstDraft
    \/ Reflect
    \/ WriteIdeas
    \/ LauncherWriteIdeas
    \/ DirectReturn

SpecIdeas == InitIdeas /\ [][NextIdeas]_vars

\* ----------------------------- the launcher, its processes and the idea folders
\* the launcher after generate_ideas returned, with the arguments as parsed
InitParallel ==
    /\ novel_ideas \in SeqsUpTo(Idea, MaxIdeas)
    /\ parallel \in 0..MaxParallel
    /\ l_pc = "args"
    /\ idx = 1
    /\ queue = <<>>
    /\ w_pc = "none"
    /\ called = <<>>
    /\ raised_for = {}
    /\ InitDoIdeaIdle
    /\ InitExperimentsIdle
    /\ InitRunExperimentIdle
    /\ InitIdeasIdle
    /\ InitWriteupIdle
    /\ available_gpus \in SeqsUpTo(Devices, MaxGpus)
    /\ processes = 0
    /\ exec = [w \in Processes |-> NotStarted]
    /\ clock = 0
    /\ folders = {}
    /\ writes = {}
    /\ do_idea_calls = [k \in 1..Len(novel_ideas) |-> 0]

NextParallel ==
    \/ CheckGpus
    \/ FillQueue
    \/ StartProcess
    \/ Sleep
    \/ PutSentinels
    \/ JoinProcesses
    \/ SequentialLoop
    \/ SequentialAfter
    \/ Tick
    \/ \E w \in Processes : PinDevice(w)
    \/ \E w \in Processes : QueueGet(w)
    \/ \E w \in Processes : FolderStamp(w)
    \/ \E w \in Processes : AssertNoFolder(w)
    \/ \E w \in Processes : CopyTree(w)
    \/ \E w \in Processes : RunIdea(w)
    \/ \E w \in Processes : Finally(w)
    \/ \E w \in Processes : WorkerAfterDoIdea(w)

SpecParallel == InitParallel /\ [][NextParallel]_vars

\* ----------------------------------------------- perform_writeup on its own
\* perform_writeup(idea, folder_name, coder, results) is called with a results
\* mapping as perform_experiments can return it: one read from results.json,
\* or the empty mapping of a failed attempt
InitWriteup ==
    /\ InitLauncherIdle
    /\ InitDoIdeaIdle
    /\ current_iter = 0
    /\ run = 1
    /\ next_prompt = CoderPrompt
    /\ results \in {Bound(ResultsJson(d)) : d \in Drafts} \cup {Bound(EmptyDict)}
    /\ last_attempt = 0
    /\ n_success = 0
    /\ fails_in_row = 0
    /\ marker_seen = FALSE
    /\ pe_exc = ""
    /\ run_dirs = {}
    /\ coder_in = NoPrompt
    /\ coder_calls = 0
    /\ run_calls = 0
    /\ ok_results = EmptyDict
    /\ InitRunExperimentIdle
    /\ InitIdeasIdle
    /\ InitParallelIdle
    /\ pw_pc = "enter"
    /\ pw_built = {}
    /\ pw_sent = <<>>
    /\ pw_latex = "none"
    /\ duplicates = 0
    /\ gl_i = 0

NextWriteup ==
    \/ WriteupEnter
    \/ WriteupCoderRun
    \/ GenerateLatexEnter
    \/ FixDuplicateFigure
    \/ ReadSections
    \/ FixDuplicateSection
    \/ ChktexRound
    \/ CompileLatex

SpecWriteup == InitWriteup /\ [][NextWriteup]_vars

\* ===================================================================== claims

\* the success budget was used up, or the marker came, with fewer than
\* MAX_ITERS failed attempts in a row behind it
SuccessBeforeCeiling ==
    (n_success >= MAX_RUNS \/ marker_seen) /\ fails_in_row < MAX_ITERS

\* C1: whenever perform_experiments is left (and neither coder.run nor the
\* read of results.json raised), it has returned, with success exactly when
\* MAX_RUNS attempts succeeded or the reply held ALL_COMPLETED before MAX_ITERS
\* attempts failed in a row, and with failure otherwise.
C1_SuccessIffBudgetOrMarker ==
    (di_pc = "after_pe" /\ pe_exc \notin {"CoderError", "ArtifactError"}) =>
        /\ pe_outcome \in {"success", "failure"}
        /\ pe_outcome = "success" <=> SuccessBeforeCeiling

\* C2: for every round budget num_reflections the model is called at most
\* num_reflections times for one idea, the first draft included: no round
\* num_reflections + 1 is run or about to be run, and the calls of one
\* generate_ideas call never exceed the budget times the ideas begun.
C2_AtMostNRounds ==
    /\ cur.rounds <= num_reflections
    /\ gi_pc = "reflect" => j + 2 <= num_reflections
    /\ llm_calls <= num_reflections * (Len(idea_log) + (IF gi_pc = "reflect" THEN 1 ELSE 0))

\* C2 witness: an idea used up its whole budget of two or more rounds without
\* the convergence marker and was stopped there.
C2_Witness ==
    /\ gi_pc \in {"first", "write"}
    /\ num_reflections >= 2
    /\ cur.rounds = num_reflections
    /\ cur.all_parsed
    /\ ~cur.reflect_marker

\* C3 as claimed: once a reply for the idea held "I am done", be it the first
\* draft's reply or a reflection's, no further round is run for the idea.
C3_MarkerInAnyRoundStops ==
    gi_pc = "reflect" => (~cur.first_marker /\ ~cur.reflect_marker)

\* C3 as amended: once the reply of a reflection round (round 2 or later) held
\* "I am done", no further round is run for the idea, whatever budget remains:
\* the idea is closed at once, recorded with that reply's object when every
\* reply of the idea was parsed. The first draft's reply is not searched for
\* the phrase.
C3_MarkerInReflectionStops ==
    /\ gi_pc = "reflect" => ~cur.reflect_marker
    /\ (cur.reflect_marker /\ gi_pc \in {"first", "write"}) =>
          /\ Len(idea_log) = i
          /\ idea_log[i] = Verdict(cur)
          /\ cur.all_parsed =>
                /\ idea_str_archive # <<>>
                /\ json_loads(idea_str_archive[Len(idea_str_archive)]) = cur.last_json

\* C3 witness: a reflection reply held the phrase before the budget was used
\* up, and the idea was recorded.
C3_Witness ==
    /\ gi_pc \in {"first", "write"}
    /\ cur.reflect_marker
    /\ cur.all_parsed
    /\ cur.rounds < num_reflections

IsRecorded(x) == x # Failed

C4_TruncatedToMaxLength ==
    (re_pc = "returned" /\ proc.exit = "nonzero") =>
        /\ next_prompt.kind = "run_failed"
        /\ LET text == next_prompt.text
               err == proc.stderr
           IN  IF Len(err) > MAX_STDERR_OUTPUT
               THEN /\ Len(text) = MAX_STDERR_OUTPUT
                    /\ SubSeq(text, 1, Len(Ellipsis)) = Ellipsis
                    /\ \A k \in (Len(Ellipsis) + 1)..Len(text) :
                          text[k] = err[Len(err) - Len(text) + k]
               ELSE text = err

\* C4 as amended: the stderr is cut to its last MAX_STDERR_OUTPUT characters
\* and the marker "..." is put in front of them, so the embedded error text is
\* MAX_STDERR_OUTPUT + 3 characters long; stderr of at most MAX_STDERR_OUTPUT
\* characters is embedded unchanged, with nothing put in front.
C4_MarkerThenLastChars ==
    (re_pc = "returned" /\ proc.exit = "nonzero") =>
        /\ next_prompt.kind = "run_failed"
        /\ LET text == next_prompt.text
               err == proc.stderr
           IN  IF Len(err) > MAX_STDERR_OUTPUT
               THEN /\ Len(text) = MAX_STDERR_OUTPUT + 3
                    /\ \A k \in 1..3 : text[k] = "."
                    /\ \A k \in 1..MAX_STDERR_OUTPUT :
                          text[3 + k] = err[Len(err) - MAX_STDERR_OUTPUT + k]
               ELSE /\ Len(text) = Len(err)
                    /\ \A k \in 1..Len(err) : text[k] = err[k]

\* C4 witness: run_experiment returned after a non-zero exit whose stderr was
\* longer than MAX_STDERR_OUTPUT.
C4_Witness ==
    /\ re_pc = "returned"
    /\ proc.exit = "nonzero"
    /\ Len(proc.stderr) > MAX_STDERR_OUTPUT
    /\ next_prompt.kind = "run_failed"

\* C7: in sequential mode no exception of do_idea ends the loop: the ideas
\* are handed to do_idea one by one in list order, an idea whose do_idea raised
\* is behind the loop's position, "All ideas evaluated" is reached only after
\* do_idea was called for every idea, and the launcher can always take a step
\* until then. Only the launcher's own read of idea['Name'] (line 286, not in
\* do_idea) stops the loop early.
C7_SequentialBatchSurvives ==
    parallel = 0 =>
        /\ l_pc = "crashed" =>
              /\ di_pc # "raised"
              /\ idx <= Len(novel_ideas)
              /\ novel_ideas[idx].Name = Missing
        /\ called = [k \in 1..Len(called) |-> k]
        /\ Len(called) \in {idx - 1, idx}
        /\ \A k \in raised_for : k < idx
        /\ l_pc = "done" => Len(called) = Len(novel_ideas)
        /\ l_pc \in {"done", "crashed"} \/ ENABLED Next

\* C7 witness: the first idea's do_idea raised, the second idea was processed
\* all the same and the batch ended with "All ideas evaluated".
C7_Witness ==
    /\ parallel = 0
    /\ l_pc = "done"
    /\ 1 \in raised_for
    /\ called = <<1, 2>>

\* C8: perform_writeup is started only after perform_experiments returned
\* success for the idea; when perform_experiments reported failure or raised,
\* do_idea ends without calling perform_writeup and returns False.
C8_WriteupOnlyAfterSuccess ==
    /\ writeup_called => pe_outcome = "success"
    /\ (di_pc \in {"returned", "raised"} /\ pe_outcome \in {"failure", "raised"}) =>
          /\ ~writeup_called
          /\ di_pc = "returned"
          /\ di_ret = "False"

\* C9: after a zero exit with a missing or malformed results.json the error
\* leaves run_experiment and perform_experiments, the attempt is not retried,
\* the writeup is not started, and do_idea returns False.
C9_ArtifactErrorFailsIdea ==
    (pe_outcome = "raised" /\ pe_exc = "ArtifactError") =>
        /\ di_pc \notin {"pe_loop", "pe_coder", "pe_run", "writeup"}
        /\ ~writeup_called
        /\ di_pc \in {"returned", "raised"} => (di_pc = "returned" /\ di_ret = "False")

\* C10 as claimed: each run_experiment call gets an attempt number greater
\* than the one before it, and none above MAX_RUNS.
C10_AttemptNumbersStrictlyIncrease ==
    di_pc = "pe_run" => (run > last_attempt /\ run <= MAX_RUNS)

\* C10 as amended: the attempt numbers never decrease and never exceed
\* MAX_RUNS; the number goes up by one exactly after an attempt that exited
\* with status zero, and the attempt after a failed one gets the same number
\* again; the run directories that exist are those of the successful attempts,
\* one per attempt number.
C10_AttemptNumbersNeverDecrease ==
    di_pc = "pe_run" =>
        /\ 1 <= run /\ run <= MAX_RUNS
        /\ last_attempt # 0 =>
              /\ next_prompt.kind = "run_completed" => run = last_attempt + 1
              /\ next_prompt.kind # "run_completed" => run = last_attempt
        /\ run_dirs = 1..(run - 1)
        /\ n_success = run - 1

\* C10 witness: an attempt number is handed out a second time, after the
\* attempt before it failed.
C10_Witness ==
    /\ di_pc = "pe_run"
    /\ run = 2
    /\ last_attempt = 2
    /\ next_prompt.kind = "run_failed"

\* C13 as claimed: at the top of each cycle of the perform_experiments loop
\* current_iter is the number of failed attempts since the last successful one
\* (a success leaves it at zero, a failure adds one), and run is one more than
\* the number of successful attempts.
C13_CurrentIterCountsFailures ==
    di_pc = "pe_loop" =>
        /\ current_iter = fails_in_row
        /\ run = n_success + 1

\* C14: whenever the reply of coder.run held ALL_COMPLETED, the first reply
\* included, perform_experiments launches no further attempt and returns
\* normally with success and a results mapping.
C14_MarkerReturnsSuccess ==
    (di_pc = "after_pe" /\ marker_seen) =>
        /\ pe_exc = ""
        /\ pe_outcome = "success"
        /\ results.bound

\* C15: a failed attempt (non-zero exit or timeout) is not raised: the loop
\* of perform_experiments goes on with the run number unchanged and the
\* failure report as next_prompt (the fixed timeout message, or the message
\* that embeds the stderr), the report is exactly what the next coder.run call
\* is given, and every failure has added exactly one to current_iter.
C15_FailureIsReportedNotRaised ==
    (di_pc \in {"pe_loop", "pe_coder", "pe_run"} /\ proc.exit \in {"nonzero", "timeout"}) =>
        /\ pe_exc = ""
        /\ pe_outcome = "none"
        /\ run = last_attempt
        /\ proc.exit = "timeout" => next_prompt = [kind |-> "run_timed_out"]
        /\ proc.exit = "nonzero" =>
              next_prompt = [kind |-> "run_failed", text |-> proc.stderr]
        /\ fails_in_row >= 1
        /\ current_iter = fails_in_row + (IF n_success > 0 THEN 1 ELSE 0)
        /\ di_pc = "pe_run" => coder_in = next_prompt

\* C15 witness: after two failed attempts in a row, the second a timeout, the
\* coder was given the timeout message and a third attempt is about to start.
C15_Witness ==
    /\ di_pc = "pe_run"
    /\ proc.exit = "timeout"
    /\ fails_in_row = 2
    /\ coder_in.kind = "run_timed_out"

\* C16: when run_experiment returns after a non-zero exit or a timeout, the
\* directory run_<n> of that attempt does not exist, whether the process had
\* made it or not, the results mapping returned is empty, and the directories
\* of the earlier successful attempts are all still there.
C16_FailedAttemptLeavesNoDirectory ==
    (re_pc = "returned" /\ proc.exit \in {"nonzero", "timeout"}) =>
        /\ run \notin run_dirs
        /\ results.bound /\ results.val = {}
        /\ run_dirs = 1..(run - 1)

\* C16 witness: the second attempt made its directory and then timed out.
C16_Witness ==
    /\ re_pc = "returned"
    /\ proc.exit = "timeout"
    /\ proc.made_dir
    /\ run = 2
    /\ run_dirs = {1}

\* C17: the object recorded for a finalized idea is the one parsed from the
\* last round that ran for it (the round with the convergence marker, or the
\* last round of the budget): the entry appended to idea_str_archive is the
\* JSON text of exactly that object, whatever the earlier rounds parsed.
C17_RecordsLastParsedObject ==
    (gi_pc \in {"first", "write"} /\ idea_log # <<>> /\ idea_log[Len(idea_log)] # Failed) =>
        /\ cur.rounds >= 1
        /\ json_output = cur.last_json
        /\ idea_str_archive # <<>>
        /\ idea_str_archive[Len(idea_str_archive)] =
              [decodes |-> TRUE, val |-> cur.last_json, layout |-> "compact"]

\* C17 witness: the first draft parsed to one object, the second and last
\* round to another, and the second one was recorded.
C17_Witness ==
    /\ gi_pc \in {"first", "write"}
    /\ cur.rounds = 2
    /\ cur.all_parsed
    /\ prev_idea = <<[decodes |-> TRUE, val |-> -1, layout |-> "compact"]>>
    /\ idea_str_archive # <<>>
    /\ idea_str_archive[Len(idea_str_archive)].val = 2

\* C18 as claimed: the first-draft prompt about to be rendered for an idea
\* embeds the JSON strings of the seed ideas and of all the ideas recorded
\* before it in this generate_ideas call, and nothing else.
C18_PromptEmbedsAllPriorIdeas ==
    gi_pc = "first" =>
        {prev_idea[k] : k \in 1..Len(prev_idea)} =
            {[decodes |-> TRUE, val |-> seed_ideas[k], layout |-> "compact"] :
                 k \in 1..Len(seed_ideas)}
            \cup {idea_str_archive[k] : k \in 1..Len(idea_str_archive)}

\* C19: while an idea is in its reflection rounds, the conversation history
\* holds exactly the prompts and replies of the rounds already run for that
\* idea, in order (it started empty and every call got the history the call
\* before it returned), every one of these rounds was answered and parsed,
\* and no message of another idea is in it.
C19_HistoryBelongsToOneIdea ==
    gi_pc = "reflect" =>
        /\ cur.rounds = j + 1
        /\ cur.all_parsed
        /\ Len(msg_history) = 2 * (j + 1)
        /\ \A k \in 1..Len(msg_history) :
              /\ msg_history[k].idea = i
              /\ msg_history[k].round = (k + 1) \div 2
              /\ msg_history[k].role = IF k % 2 = 1 THEN "user" ELSE "assistant"

\* C19 witness: the second idea of a call, two rounds answered, is about to
\* run its third round on a history of four messages.
C19_Witness ==
    /\ gi_pc = "reflect"
    /\ i = 1
    /\ j = 1
    /\ Len(msg_history) = 4
    /\ idea_log # <<>>

\* the do_idea calls that wrote into folder f
WritersOf(f) == {c \in {x[2] : x \in writes} : <<f, c>> \in writes}

\* C11: no two do_idea calls ever write into the same idea folder, in
\* sequential mode or across worker processes, whatever the ideas' names and
\* however the processes are interleaved.
C11_NoSharedArtifactDirectory ==
    \A f \in folders : Cardinality(WritersOf(f)) <= 1

\* C12: the worker processes started by the launcher are pinned to pairwise
\* different devices, for every --parallel value and every --gpus list, and
\* the device a worker has set for itself is the one it was started with.
C12_WorkersOnDistinctDevices ==
    /\ \A v, w \in 1..processes : v # w => exec[v].gpu_id # exec[w].gpu_id
    /\ \A w \in 1..processes : exec[w].cuda \in {-1, exec[w].gpu_id}

\* C20: in parallel mode do_idea is never called twice for an idea, and once
\* the launcher's joins have returned, do_idea was called exactly once for
\* every idea of the queue and every worker has taken a None sentinel and
\* left its loop.
C20_EveryIdeaOnceEveryWorkerExits ==
    parallel > 0 =>
        /\ \A k \in 1..Len(do_idea_calls) : do_idea_calls[k] <= 1
        /\ l_pc = "done" =>
              /\ \A k \in 1..Len(do_idea_calls) : do_idea_calls[k] = 1
              /\ \A w \in 1..parallel : exec[w].pc = "finished"

\* C21: every perform_experiments call that was entered is left again, and
\* with MAX_RUNS = 3 and MAX_ITERS = 3 no call makes more than 7
\* run_experiment calls or more than 7 coder.run calls, whatever the replies
\* and the outcomes of the attempts are.
C21_PerformExperimentsTerminates ==
    /\ [](coder_calls <= 7 /\ run_calls <= 7 /\ run_calls <= coder_calls)
    /\ (di_pc = "pe_enter") ~> (di_pc = "after_pe")

\* C21 witness: a call was left after 7 coder.run calls and 7 attempts.
C21_Witness ==
    /\ di_pc = "after_pe"
    /\ coder_calls = 7
    /\ run_calls = 7

\* C22: whenever perform_experiments has returned success, the results
\* mapping it returned is the one read from results.json by the most recent
\* successful attempt, with its model_response field; a failed attempt after
\* that one has not put an empty mapping in its place.
C22_SuccessReturnsLastGoodResults ==
    (di_pc = "after_pe" /\ pe_outcome = "success") =>
        /\ results.bound
        /\ HasKey(results.val, "model_response")
        /\ results.val = ok_results

\* C23: a do_idea call that got past its folder setup returns, with log_file
\* unset or set, and the value it returns (the one printed as "Success") is
\* True exactly when perform_experiments returned success and perform_writeup
\* returned, and False in every other case.
C23_ReturnsTrueIffBothStagesDone ==
    (di_pc \in {"returned", "raised"} /\ di_exc \notin {"KeyError", "AssertionError"}) =>
        /\ di_pc = "returned"
        /\ di_ret = IF pe_outcome = "success" /\ writeup_done THEN "True" ELSE "False"

\* C24 as claimed: a generate_ideas call with skip_generation set that found
\* ideas.json missing or not decodable never ends in an error for its caller;
\* it runs the generation loop and returns with a new ideas.json that holds
\* exactly the list returned.
C24_NoErrorReachesCaller ==
    (skip_generation /\ streak = 0) =>
        /\ gi_pc # "raised"
        /\ gi_pc = "returned" => ideas_json = File(JsonText(ideas, "indent=4"))

\* C24 as amended: the missing or undecodable ideas.json itself raises
\* nothing: the call goes on to the generation loop, and when it returns,
\* ideas.json is a decodable file holding exactly the list returned (the
\* empty list when every idea failed), one entry per idea that was not
\* abandoned. The only error that reaches the caller is raised while
\* prompt.json, original_work_info.json and seed_idea.json are read, before
\* any model call, and it leaves ideas.json as it was.
C24_FallbackWritesReturnedList ==
    skip_generation =>
        /\ gi_pc = "returned" => (ideas_json.exists /\ ideas_json.text.decodes)
        /\ (streak = 0 /\ gi_pc = "returned") =>
              /\ Len(idea_log) = max_num_generations
              /\ ideas = SelectSeq(idea_log, IsRecorded)
              /\ ideas_json = File(JsonText(ideas, "indent=4"))
        /\ (streak = 0 /\ gi_pc = "raised") =>
              /\ llm_calls = 0
              /\ idea_log = <<>>
              /\ ideas_json \in {NoFile, File(Malformed)}

\* C24 witness: a skip run that found no usable ideas.json attempted two
\* ideas, abandoned both, and returned the empty list it wrote to the file.
C24_Witness ==
    /\ skip_generation
    /\ streak = 0
    /\ gi_pc = "returned"
    /\ idea_log = <<Failed, Failed>>
    /\ ideas = <<>>
    /\ ideas_json = File(JsonText(<<>>, "indent=4"))

\* C25: the first instruction perform_experiments gives to coder.run is the
\* coder_prompt template with each of the ten vision placeholders replaced by
\* the field of that name of the idea in work, and max_runs by MAX_RUNS.
C25_FirstPromptCarriesIdeaFields ==
    (di_pc \in {"pe_loop", "pe_coder", "pe_run", "after_pe"} /\ coder_calls = 1) =>
        /\ coder_in.kind = "coder_prompt"
        /\ coder_in.max_runs = MAX_RUNS
        /\ \A p \in VisionPlaceholders : coder_in.vision[p] = IdeaField(di_idea, p)

\* the order of prompts the specification describes
ClaimedScript ==
    <<"novel_prompt", "chapter_prompt", "tex_prompt", "title_prompt", "refinement_prompt">>
    \o Repeat(<<"section_prompt", "refinement_prompt">>, 5)
    \o <<"final_check_prompt">>
    \o Repeat(<<"second_refinement_prompt">>, 2)

\* C26: the prompts perform_writeup hands to coder.run follow the scripted
\* order (the novel prompt once, then the chapter-structure prompt, the
\* template prompt, the title prompt and its refinement, five section and
\* refinement pairs, the final check, two second-refinement passes), every
\* prompt built is sent, and generate_latex is started only after the last
\* of them.
C26_ScriptedOrderThenLatex ==
    /\ \A k \in 1..Len(pw_sent) : k <= Len(ClaimedScript) => pw_sent[k] = ClaimedScript[k]
    /\ pw_latex # "none" =>
          /\ Len(pw_sent) >= Len(ClaimedScript)
          /\ pw_built \subseteq {pw_sent[k] : k \in 1..Len(pw_sent)}
====
